---- MODULE Spec2Model ----
(***************************************************************************)
(* Model of the ZewailAI response pipeline: the citation injector          *)
(* (processCitedContent), the table extractor                              *)
(* (extractAndParseMarkdownTable), the text direction (getTextDirection),  *)
(* the request orchestration of the search page (handleSendMessage /       *)
(* handleStop) and the loading of persisted conversations.                 *)
(***************************************************************************)
EXTENDS Integers, Sequences, FiniteSets, TLC

VARIABLES
    content,      \* processCitedContent: the content argument (sequence of characters)
    citations,    \* processCitedContent: the citations argument (nullable list)
    sources,      \* processCitedContent: the sources argument (nullable list)
    rendered,     \* result of processCitedContent, once it has been called
    dirText,      \* getTextDirection: the text argument (nullable list of UTF-16 code units)
    direction,    \* result of getTextDirection, once it has been called
    responseText, \* extractAndParseMarkdownTable: the responseText argument
    extracted,    \* result of extractAndParseMarkdownTable, once it has been called
    isLoading,           \* SearchPage state: a request is shown as running
    isRequestCancelled,  \* SearchPage ref: the one cancellation flag of the page
    activeModel,         \* SearchPage state: "gemini" or "mistral"
    isDeepResearchMode,  \* SearchPage state
    activeChat,          \* SearchPage state: 0 is null, r the session started by request r
    activeHistoryId,     \* SearchPage state: 0 is null, else the id of the history record
    error,               \* SearchPage state: "none" is null, else what the error banner is about
    chatMessages,        \* SearchPage state: the messages of the conversation
    requests,            \* one record per call of handleSendMessage: its locals and position
    searchHistory,       \* the writes issued to the search_history table, in order
    stopped              \* history variable: the requests that were streaming at a handleStop

citeVars == <<content, citations, sources, rendered>>

tableVars == <<responseText, extracted>>

dirVars == <<dirText, direction>>

pageVars == <<isLoading, isRequestCancelled, activeModel, isDeepResearchMode, activeChat,
              activeHistoryId, error, chatMessages, requests, searchHistory, stopped>>

vars == <<content, citations, sources, rendered, dirText, direction, responseText, extracted,
          isLoading, isRequestCancelled, activeModel, isDeepResearchMode, activeChat,
          activeHistoryId, error, chatMessages, requests, searchHistory, stopped>>

-----------------------------------------------------------------------------
(* Bounds of the citation harness *)

MaxCites == 2
MaxIdx == 2
MaxSources == 2

(* Bound of the table harness *)

MaxLines == 3

(* Bounds of the page: calls of handleSendMessage, chunks of one stream *)

MaxRequests == 2
MaxChunks == 2

Min(a, b) == IF a < b THEN a ELSE b
Max(a, b) == IF a < b THEN b ELSE a

-----------------------------------------------------------------------------
(* Data: src/types.ts *)

Uris == {"u1", "u2"}

Titles == {"T1", "T2"}

\* Source = { title, uri }
Source == [uri : Uris, title : Titles]

\* indices a citation may carry: negative, inside the content, beyond its end
Idx == (0 - 1)..(MaxIdx + 1)

\* an optional number (startIndex?, endIndex?) is a pair (has, value), the
\* value being 0 when the field is absent
OptIdx == {[has |-> FALSE, val |-> 0]} \cup { [has |-> TRUE, val |-> i] : i \in Idx }

\* Citation = { startIndex?, endIndex?, uri }
MkCitation(s, e, u) ==
    [hasStart |-> s.has, startIndex |-> s.val, hasEnd |-> e.has, endIndex |-> e.val, uri |-> u]

\* a nullable list: null / undefined is [present |-> FALSE, items |-> <<>>]
Null == [present |-> FALSE, items |-> <<>>]
List(items) == [present |-> TRUE, items |-> items]

SeqsUpTo(S, n) == UNION { [1..k -> S] : k \in 0..n }

-----------------------------------------------------------------------------
(* The three parts of the model at rest. A specification of one part holds *)
(* the other two at rest.                                                   *)

NotCalled == [called |-> FALSE, out |-> <<>>]

NoTable == [present |-> FALSE, headers |-> <<>>, rows |-> <<>>]

NotExtracted == [called |-> FALSE, remainingText |-> <<>>, table |-> NoTable]

CiteIdle ==
    /\ content = <<>>
    /\ citations = Null
    /\ sources = Null
    /\ rendered = NotCalled

TableIdle ==
    /\ responseText = <<>>
    /\ extracted = NotExtracted

DirIdle ==
    /\ dirText = Null
    /\ direction = "none"

\* a call of handleSendMessage that has not happened yet
Unsent ==
    [pc |-> "unsent", path |-> "none", isFirstMessage |-> FALSE, historyId |-> 0,
     fullText |-> <<>>, sourcesMap |-> <<>>, citationsMap |-> <<>>,
     delivered |-> 0, synthesizing |-> FALSE]

\* SearchPage after construction: src/unnamed/part_004 useState / useRef defaults
PageIdle ==
    /\ isLoading = FALSE
    /\ isRequestCancelled = FALSE
    /\ activeModel = "gemini"
    /\ isDeepResearchMode = FALSE
    /\ activeChat = 0
    /\ activeHistoryId = 0
    /\ error = "none"
    /\ chatMessages = <<>>
    /\ requests = [r \in 1..MaxRequests |-> Unsent]
    /\ searchHistory = <<>>
    /\ stopped = {}

-----------------------------------------------------------------------------
(* processCitedContent: src/utils/citationProcessor.ts *)

\* String.prototype.substring(start, end): both arguments are clamped to
\* [0, length] and swapped when start > end
Clamp(n, len) == IF n < 0 THEN 0 ELSE IF n > len THEN len ELSE n

\* mutant: the copied segment starts one character late
SubstringFromNext(s, a, b) ==
    LET x == Clamp(a, Len(s))
        y == Clamp(b, Len(s))
    IN  SubSeq(s, Min(x, y) + 2, Max(x, y))

Substring(s, a, b) ==
    LET x == Clamp(a, Len(s))
        y == Clamp(b, Len(s))
    IN  SubSeq(s, Min(x, y) + 1, Max(x, y))

\* mutant: a uri no source carries resolves to the first source
uriToSourceDataAnyUri(srcs, uri) ==
    LET hits == { i \in 1..Len(srcs) : srcs[i].uri = uri }
    IN  IF hits = {} THEN [found |-> TRUE, index |-> 0, title |-> srcs[1].title]
        ELSE LET i == CHOOSE j \in hits : \A k \in hits : k <= j
             IN  [found |-> TRUE, index |-> i - 1, title |-> srcs[i].title]

\* new Map(sources.map((source, index) => [source.uri, {index, title}])):
\* a later entry with the same key replaces the earlier one
uriToSourceData(srcs, uri) ==
    LET hits == { i \in 1..Len(srcs) : srcs[i].uri = uri }
    IN  IF hits = {} THEN [found |-> FALSE, index |-> 0, title |-> ""]
        ELSE LET i == CHOOSE j \in hits : \A k \in hits : k <= j
             IN  [found |-> TRUE, index |-> i - 1, title |-> srcs[i].title]

\* mutant: citations without a startIndex are kept
HasNumericStartUnchecked(c) == TRUE

\* .filter(typeof c.startIndex === 'number')
HasNumericStart(c) == c.hasStart

\* .map(... sourceData ...).filter(c !== null): citations with a known source,
\* each extended by sourceIndex (input order kept)
RECURSIVE WithSourceData(_, _)
WithSourceData(cs, srcs) ==
    IF cs = <<>> THEN <<>>
    ELSE LET c == Head(cs)
             d == uriToSourceData(srcs, c.uri)
             rest == WithSourceData(Tail(cs), srcs)
         IN  IF HasNumericStart(c) /\ d.found
             THEN <<[cit |-> c, sourceIndex |-> d.index, sourceTitle |-> d.title]>> \o rest
             ELSE rest

\* .sort((a, b) => a.startIndex - b.startIndex): Array.prototype.sort is stable
RECURSIVE InsertSorted(_, _)
InsertSorted(sorted, p) ==
    IF sorted = <<>> THEN <<p>>
    ELSE IF p.cit.startIndex < Head(sorted).cit.startIndex
         THEN <<p>> \o sorted
         ELSE <<Head(sorted)>> \o InsertSorted(Tail(sorted), p)

RECURSIVE SortByStart(_)
SortByStart(ps) ==
    IF ps = <<>> THEN <<>>
    ELSE InsertSorted(SortByStart(SubSeq(ps, 1, Len(ps) - 1)), ps[Len(ps)])

processedCitations(cits, srcs) == SortByStart(WithSourceData(cits, srcs))

\* mutant: the marker is inserted where the span starts
insertionPointAtStart(c) == c.startIndex

\* const insertionPoint = citation.endIndex || citation.startIndex
\* (an absent endIndex and the number 0 are both falsy)
insertionPoint(c) ==
    IF c.hasEnd /\ c.endIndex # 0 THEN c.endIndex ELSE c.startIndex

\* `[${citationNumber}](#citation-${citation.sourceIndex})`
citationMarkdownLink(sourceIndex) ==
    "[" \o ToString(sourceIndex + 1) \o "](#citation-" \o ToString(sourceIndex) \o ")"

\* mutant: a citation at the cursor is skipped too
SkipsAtCursor(ip, lastIndex) == ip <= lastIndex

\* if (insertionPoint < lastIndex) continue;
Skips(ip, lastIndex) == ip < lastIndex

\* the for loop: resultParts after the citations ps[k..], with the cursor lastIndex
RECURSIVE CiteLoop(_, _, _, _)
CiteLoop(txt, ps, lastIndex, resultParts) ==
    IF ps = <<>>
    THEN resultParts \o Substring(txt, lastIndex, Len(txt))
    ELSE LET ip == insertionPoint(Head(ps).cit)
         IN  IF Skips(ip, lastIndex)
             THEN CiteLoop(txt, Tail(ps), lastIndex, resultParts)
             ELSE CiteLoop(txt, Tail(ps), ip,
                           resultParts \o Substring(txt, lastIndex, ip)
                                       \o <<citationMarkdownLink(Head(ps).sourceIndex)>>)

processCitedContent(txt, cits, srcs) ==
    IF ~cits.present \/ Len(cits.items) = 0 \/ ~srcs.present \/ Len(srcs.items) = 0
    THEN txt
    ELSE LET ps == processedCitations(cits.items, srcs.items)
         IN  IF Len(ps) = 0 THEN txt
             ELSE CiteLoop(txt, ps, 0, <<>>)

-----------------------------------------------------------------------------
(* MarkdownRenderer, the `a` component: src/unnamed/part_001 *)

\* react-markdown turns the token [n](#citation-i) into a link with children n
\* and href #citation-i; parseInt(href.replace('#citation-', ''), 10) gives i
LinkOf(token, n) ==
    CHOOSE l \in (1..(n + 1)) \X (0..n) :
        token = "[" \o ToString(l[1]) \o "](#citation-" \o ToString(l[2]) \o ")"

\* sources?.[sourceIndex] undefined: the bracketed children as plain text;
\* otherwise a button showing sourceIndex + 1 for that source
CitationLink(token, srcs) ==
    LET link == LinkOf(token, Len(srcs))
        sourceIndex == link[2]
    IN  IF sourceIndex + 1 > Len(srcs)
        THEN [kind |-> "span", number |-> link[1], sourceIndex |-> sourceIndex, title |-> ""]
        ELSE [kind |-> "button", number |-> sourceIndex + 1, sourceIndex |-> sourceIndex,
              title |-> srcs[sourceIndex + 1].title]

-----------------------------------------------------------------------------
(* Harness of the citation injector: an input triple, then one call.      *)
(* Two families of inputs: InitSpans varies the positions (every pair of  *)
(* optional indices for each citation, the k-th citation citing the k-th  *)
(* of a list of distinct sources, so that a marker names its citation);   *)
(* InitRefs varies the references (null, empty and duplicate-uri source   *)
(* lists, dangling and unanchored citations).                             *)

Alphabet == <<"a", "b", "c", "d", "e", "f">>

Contents == { SubSeq(Alphabet, 1, n) : n \in 0..MaxIdx }

SlotUri(k) == "u" \o ToString(k)

SlotSources(n) == [k \in 1..n |-> [uri |-> SlotUri(k), title |-> "T" \o ToString(k)]]

SpanList(p) == [k \in DOMAIN p |-> MkCitation(p[k][1], p[k][2], SlotUri(k))]

RefCitation ==
    { MkCitation(s, [has |-> FALSE, val |-> 0], u) :
        s \in { o \in OptIdx : o.val >= 0 /\ o.val <= MaxIdx }, u \in Uris }

InitSpans ==
    /\ content \in Contents
    /\ \E n \in 0..MaxCites : \E p \in [1..n -> OptIdx \X OptIdx] :
           citations = List(SpanList(p))
    /\ sources = List(SlotSources(MaxCites))
    /\ rendered = NotCalled

InitRefs ==
    /\ content = SubSeq(Alphabet, 1, MaxIdx)
    /\ \/ citations = Null
       \/ \E cs \in SeqsUpTo(RefCitation, MaxCites) : citations = List(cs)
    /\ \/ sources = Null
       \/ \E ss \in SeqsUpTo(Source, MaxSources) : sources = List(ss)
    /\ rendered = NotCalled

InitCite == (InitSpans \/ InitRefs) /\ TableIdle /\ PageIdle /\ DirIdle

\* ChatMessageItem: contentToRender = processCitedContent(msg.content, msg.citations, msg.sources)
Inject ==
    /\ ~rendered.called
    /\ rendered' = [called |-> TRUE, out |-> processCitedContent(content, citations, sources)]
    /\ UNCHANGED <<content, citations, sources>>
    /\ UNCHANGED <<tableVars, pageVars, dirVars>>

NextCite == Inject

SpecCite == InitCite /\ [][NextCite]_vars

-----------------------------------------------------------------------------
(* Text: a string is the sequence of its characters. Besides letters the    *)
(* characters are "|", "-", ":", " ", "\n", the fence (three backticks,     *)
(* one element), the language tag "json", and JSON documents: one element   *)
(* stands for the text of one well-formed JSON document.                    *)

NL == "\n"

\* three backticks
Fence == "FENCE"

JsonTag == "json"

IsSpace(c) == c \in {" ", NL}

\* String.prototype.trim
RECURSIVE TrimStart(_)
TrimStart(s) == IF s # <<>> /\ IsSpace(Head(s)) THEN TrimStart(Tail(s)) ELSE s

RECURSIVE TrimEnd(_)
TrimEnd(s) ==
    IF s # <<>> /\ IsSpace(s[Len(s)]) THEN TrimEnd(SubSeq(s, 1, Len(s) - 1)) ELSE s

Trim(s) == TrimEnd(TrimStart(s))

\* String.prototype.split(sep) for a one-character separator
RECURSIVE Split(_, _)
Split(s, sep) ==
    IF \A i \in 1..Len(s) : s[i] # sep THEN <<s>>
    ELSE LET i == CHOOSE j \in 1..Len(s) : s[j] = sep /\ \A k \in 1..(j - 1) : s[k] # sep
         IN  <<SubSeq(s, 1, i - 1)>> \o Split(SubSeq(s, i + 1, Len(s)), sep)

\* Array.prototype.join(sep)
RECURSIVE Join(_, _)
Join(parts, sep) ==
    IF parts = <<>> THEN <<>>
    ELSE IF Len(parts) = 1 THEN parts[1]
         ELSE parts[1] \o sep \o Join(Tail(parts), sep)

Includes(s, c) == \E i \in 1..Len(s) : s[i] = c

-----------------------------------------------------------------------------
(* The table extractor: src/utils/citationProcessor.ts *)

Table(h, r) == [present |-> TRUE, headers |-> h, rows |-> r]

\* .replace(/^\||\|$/g, ''): one leading and one trailing pipe are removed
StripPipes(s) ==
    LET a == IF s # <<>> /\ Head(s) = "|" THEN Tail(s) ELSE s
    IN  IF a # <<>> /\ a[Len(a)] = "|" THEN SubSeq(a, 1, Len(a) - 1) ELSE a

\* .replace(/^\s*\||\|\s*$/g, ''): leading blanks with a pipe, and a pipe with
\* trailing blanks
StripPipesAndBlanks(s) ==
    LET ls == TrimStart(s)
        a == IF ls # <<>> /\ Head(ls) = "|" THEN Tail(ls) ELSE s
        te == TrimEnd(a)
    IN  IF te # <<>> /\ te[Len(te)] = "|" THEN SubSeq(te, 1, Len(te) - 1) ELSE a

parseRow(rowString) ==
    LET cleanedRow == Trim(StripPipes(Trim(rowString)))
        cells == Split(cleanedRow, "|")
    IN  [i \in 1..Len(cells) |-> Trim(cells[i])]

\* /^\s*:?-+:?\s*$/.test(s)
IsDashSegment(s) ==
    LET t == Trim(s)
        a == IF t # <<>> /\ Head(t) = ":" THEN Tail(t) ELSE t
        b == IF a # <<>> /\ a[Len(a)] = ":" THEN SubSeq(a, 1, Len(a) - 1) ELSE a
    IN  b # <<>> /\ \A i \in 1..Len(b) : b[i] = "-"

\* variant: without the test that the line holds a dash and a pipe
isSeparatorLineAnyLine(line) ==
    \A i \in 1..Len(Split(StripPipes(Trim(line)), "|")) :
        IsDashSegment(Split(StripPipes(Trim(line)), "|")[i])

isSeparatorLine(line) ==
    LET trimmedLine == Trim(line)
    IN  IF ~Includes(trimmedLine, "-") \/ ~Includes(trimmedLine, "|") THEN FALSE
        ELSE LET segments == Split(StripPipes(trimmedLine), "|")
             IN  Len(segments) > 0 /\ \A i \in 1..Len(segments) : IsDashSegment(segments[i])

\* the inner for loop: data rows from line j on; the result is the rows
\* collected so far
RECURSIVE CollectRows(_, _, _, _)
CollectRows(lines, j, n, rowsData) ==
    IF j > Len(lines) THEN rowsData
    ELSE IF ~Includes(lines[j], "|") THEN rowsData
         ELSE LET row == parseRow(lines[j])
              IN  IF Len(row) # n THEN rowsData
                  ELSE CollectRows(lines, j + 1, n, Append(rowsData, row))

\* the header/separator test of the outer loop at line i
IsTableStart(lines, i) ==
    /\ isSeparatorLine(lines[i + 1])
    /\ LET potentialHeaders == parseRow(lines[i])
           separatorCols == Split(StripPipesAndBlanks(lines[i + 1]), "|")
       IN  Len(potentialHeaders) > 0 /\ Len(potentialHeaders) = Len(separatorCols)

\* the outer for loop: the first line that starts a table, 0 when none does
tableStartIndex(lines) ==
    IF \A i \in 1..(Len(lines) - 1) : ~IsTableStart(lines, i) THEN 0
    ELSE CHOOSE i \in 1..(Len(lines) - 1) :
            IsTableStart(lines, i) /\ \A k \in 1..(i - 1) : ~IsTableStart(lines, k)

\* variant: the lines before the table are dropped as well
remainingLinesAfterTable(lines, start, end) == SubSeq(lines, end + 1, Len(lines))

\* lines.filter((_, index) => index < tableStartIndex || index > tableEndIndex)
remainingLines(lines, start, end) ==
    SubSeq(lines, 1, start - 1) \o SubSeq(lines, end + 1, Len(lines))

\* the end of _internalParseMarkdownForTable: no row, no table
TableResult(markdown, lines, start, headers, rowsData) ==
    IF Len(rowsData) = 0 THEN [remainingText |-> markdown, table |-> NoTable]
    ELSE [remainingText |->
              Trim(Join(remainingLines(lines, start, start + 1 + Len(rowsData)), <<NL>>)),
          table |-> Table(headers, rowsData)]

TableFrom(markdown, lines, start, headers) ==
    TableResult(markdown, lines, start, headers,
                CollectRows(lines, start + 2, Len(headers), <<>>))

ScanLines(markdown, lines, start) ==
    IF start = 0 THEN [remainingText |-> markdown, table |-> NoTable]
    ELSE TableFrom(markdown, lines, start, parseRow(lines[start]))

internalParseMarkdownForTable(markdown) ==
    ScanLines(markdown, Split(markdown, NL), tableStartIndex(Split(markdown, NL)))

-----------------------------------------------------------------------------
(* JSON documents. JSON.parse is the runtime's: a string parses when it is  *)
(* the text of one JSON document, and throws a SyntaxError otherwise. Each  *)
(* document below is one element of a text; JsonValue is what it parses to. *)

JsonDocs == {"J_full", "J_plain", "J_ragged", "J_norows", "J_badtable", "J_notable", "J_scalar"}

Cell(c) == <<c>>

\* truthy: the parsed value is truthy; tableKind: the table property is
\* absent or falsy ("none"), a truthy non-object ("scalar") or an object;
\* headersArray / rowsArray: Array.isArray of table.headers / table.rows;
\* hasText: the text property is a string
JsonValue(doc) ==
    CASE doc = "J_full" ->
            \* {"text":" s","table":{"headers":["a","b"],"rows":[["c","d"]]}}
            [truthy |-> TRUE, tableKind |-> "object", headersArray |-> TRUE, rowsArray |-> TRUE,
             headers |-> <<Cell("a"), Cell("b")>>, rows |-> <<<<Cell("c"), Cell("d")>>>>,
             hasText |-> TRUE, text |-> <<" ", "s">>]
      [] doc = "J_plain" ->
            \* {"table":{"headers":["a"],"rows":[["c"]]}}
            [truthy |-> TRUE, tableKind |-> "object", headersArray |-> TRUE, rowsArray |-> TRUE,
             headers |-> <<Cell("a")>>, rows |-> <<<<Cell("c")>>>>,
             hasText |-> FALSE, text |-> <<>>]
      [] doc = "J_ragged" ->
            \* {"text":"s","table":{"headers":["a","b"],"rows":[["c"]]}}
            [truthy |-> TRUE, tableKind |-> "object", headersArray |-> TRUE, rowsArray |-> TRUE,
             headers |-> <<Cell("a"), Cell("b")>>, rows |-> <<<<Cell("c")>>>>,
             hasText |-> TRUE, text |-> <<"s">>]
      [] doc = "J_norows" ->
            \* {"table":{"headers":["a"],"rows":[]}}
            [truthy |-> TRUE, tableKind |-> "object", headersArray |-> TRUE, rowsArray |-> TRUE,
             headers |-> <<Cell("a")>>, rows |-> <<>>,
             hasText |-> FALSE, text |-> <<>>]
      [] doc = "J_badtable" ->
            \* {"text":"s","table":{"headers":"a"}}
            [truthy |-> TRUE, tableKind |-> "object", headersArray |-> FALSE, rowsArray |-> FALSE,
             headers |-> <<>>, rows |-> <<>>,
             hasText |-> TRUE, text |-> <<"s">>]
      [] doc = "J_notable" ->
            \* {"text":"s"}
            [truthy |-> TRUE, tableKind |-> "none", headersArray |-> FALSE, rowsArray |-> FALSE,
             headers |-> <<>>, rows |-> <<>>,
             hasText |-> TRUE, text |-> <<"s">>]
      [] OTHER ->
            \* 0
            [truthy |-> FALSE, tableKind |-> "none", headersArray |-> FALSE, rowsArray |-> FALSE,
             headers |-> <<>>, rows |-> <<>>,
             hasText |-> FALSE, text |-> <<>>]

\* JSON.parse(jsonString)
JsonParse(jsonString) ==
    IF Len(jsonString) = 1 /\ jsonString[1] \in JsonDocs
    THEN [ok |-> TRUE, value |-> JsonValue(jsonString[1])]
    ELSE [ok |-> FALSE, value |-> JsonValue("J_scalar")]

-----------------------------------------------------------------------------
(* extractAndParseMarkdownTable: src/utils/citationProcessor.ts *)

\* textToParse.match(/```(?:json)?\s*([\s\S]*?)\s*```/): the first fence that
\* has a fence after it opens the block, the next fence closes it; the group
\* is what lies between, without the tag and the blanks around it
blockMatch(text) ==
    LET fences == { i \in 1..Len(text) : text[i] = Fence }
    IN  IF Cardinality(fences) < 2
        THEN [found |-> FALSE, whole |-> <<>>, group |-> <<>>, outside |-> text]
        ELSE LET open == CHOOSE i \in fences : \A k \in fences : i <= k
                 close == CHOOSE i \in fences \ {open} : \A k \in fences \ {open} : i <= k
                 inner == SubSeq(text, open + 1, close - 1)
                 untagged == IF inner # <<>> /\ Head(inner) = JsonTag THEN Tail(inner) ELSE inner
             IN  [found |-> TRUE,
                  whole |-> SubSeq(text, open, close),
                  group |-> Trim(untagged),
                  \* textToParse.replace(blockMatch[0], '')
                  outside |-> SubSeq(text, 1, open - 1) \o SubSeq(text, close + 1, Len(text))]

\* the table of a parsed document when it passes the shape test, else NoTable
ValidatedTable(v) ==
    IF v.truthy /\ v.tableKind = "object" /\ v.headersArray /\ v.rowsArray
    THEN Table(v.headers, v.rows)
    ELSE NoTable

\* variant: the two parts are joined even when one of them is empty
combinedTextAlwaysJoined(textOutsideBlock, textInsideBlock) ==
    textOutsideBlock \o <<NL, NL>> \o textInsideBlock

\* [textOutsideBlock, textInsideBlock].filter(Boolean).join('\n\n')
combinedText(textOutsideBlock, textInsideBlock) ==
    Join(SelectSeq(<<textOutsideBlock, textInsideBlock>>, LAMBDA t : t # <<>>), <<NL, NL>>)

\* variant: the scan of the first text is returned, table or not
GridScanFirstOnly(texts) == internalParseMarkdownForTable(Head(texts))

\* the scans of the grid phase: the first text in which a table is found
\* decides, and the scan of the last text is returned when none has one
RECURSIVE GridScan(_)
GridScan(texts) ==
    IF Len(texts) > 1 /\ ~internalParseMarkdownForTable(Head(texts)).table.present
    THEN GridScan(Tail(texts))
    ELSE internalParseMarkdownForTable(Head(texts))

\* the try block once JSON.parse has returned, and the catch block when it threw
AfterParse(response, outside, parsed, table) ==
    IF parsed.ok
    THEN IF table.present
         THEN [remainingText |->
                  combinedText(Trim(outside),
                               IF parsed.value.hasText THEN Trim(parsed.value.text) ELSE <<>>),
               table |-> table]
         ELSE GridScan(<<response>>)
    ELSE GridScan(<<Trim(outside), response>>)

AfterMatch(response, m) ==
    IF m.found /\ m.whole # <<>> /\ m.group # <<>>
    THEN AfterParse(response, m.outside, JsonParse(m.group),
                    ValidatedTable(JsonParse(m.group).value))
    ELSE GridScan(<<response>>)

extractAndParseMarkdownTable(response) ==
    IF response = <<>> THEN [remainingText |-> <<>>, table |-> NoTable]
    ELSE AfterMatch(response, blockMatch(Trim(response)))

-----------------------------------------------------------------------------
(* Harness of the table extractor: a response text, then one call. Two     *)
(* families of texts: InitBlocks has up to MaxLines lines, among them       *)
(* fenced blocks of every kind; InitGrid has longer texts of prose and      *)
(* table lines without a fence, so that a table has lines around it;        *)
(* InitMixed has one fenced block next to such a text.                      *)

LinePool ==
    { <<>>, <<"x">>, <<" ", "y">>,
      <<"a", "|", "b">>, <<"|", "a">>,
      <<"-", "|", "-">>, <<"|", "-">>, <<"-">>, <<":", "-", ":", "|">>, <<"|", "-", ":", "-">>,
      <<"c", "|", "d">>, <<"|", "c">>,
      <<Fence, "z", Fence>> }
    \cup { <<Fence, JsonTag, " ", d, Fence>> : d \in JsonDocs }

GridLinePool ==
    { <<>>, <<"x">>, <<"a", "|", "b">>, <<"-", "|", "-">>, <<"c", "|", "d">> }

MaxGridLines == MaxLines + 3

InitBlocks ==
    \E ls \in SeqsUpTo(LinePool, MaxLines) : responseText = Join(ls, <<NL>>)

InitGrid ==
    \E n \in (MaxLines + 1)..MaxGridLines : \E ls \in [1..n -> GridLinePool] :
        responseText = Join(ls, <<NL>>)

\* a line holding one fenced block
BlockLines == { l \in LinePool : Includes(l, Fence) }

\* a fenced block on a line of its own before or after a text of table lines
InitMixed ==
    \E b \in BlockLines : \E ls \in SeqsUpTo(GridLinePool, MaxLines) :
        \/ responseText = Join(<<b>> \o ls, <<NL>>)
        \/ responseText = Join(Append(ls, b), <<NL>>)

InitTable ==
    /\ InitBlocks \/ InitGrid \/ InitMixed
    /\ extracted = NotExtracted
    /\ CiteIdle
    /\ PageIdle
    /\ DirIdle

\* one call of extractAndParseMarkdownTable(responseText)
Extract ==
    /\ ~extracted.called
    /\ extracted' = [called |-> TRUE] @@ extractAndParseMarkdownTable(responseText)
    /\ UNCHANGED responseText
    /\ UNCHANGED <<citeVars, pageVars, dirVars>>

NextTable == Extract

SpecTable == InitTable /\ [][NextTable]_vars

-----------------------------------------------------------------------------
(* Request orchestration of the search page: src/unnamed/part_004.         *)
(* handleSendMessage is an async function: it runs to its first await in   *)
(* one step (HandleSendMessage), then one step per chunk of its stream     *)
(* (ChunkArrives), and one step when the stream ends (StreamEnds) or       *)
(* throws (StreamFails). The steps of different calls interleave.          *)

Requests == 1..MaxRequests

\* the chunks a stream may deliver: { text?, sources?, citations? }
NoText == [has |-> FALSE, val |-> <<>>]

TextDelta(t) == [has |-> TRUE, val |-> t]

ChunkPool ==
    { [text |-> TextDelta(<<"a">>),
       sources |-> List(<<[uri |-> "u1", title |-> "T1"]>>),
       citations |-> List(<<MkCitation([has |-> TRUE, val |-> 0], [has |-> TRUE, val |-> 1], "u1"),
                            MkCitation([has |-> TRUE, val |-> 0], [has |-> TRUE, val |-> 1], "u2")>>)],
      [text |-> TextDelta(<<"x", "|", "y", NL, "-", "|", "-", NL, "c", "|", "d", NL>>),
       sources |-> List(<<[uri |-> "u2", title |-> "T2"], [uri |-> "u1", title |-> "T2"]>>),
       citations |-> Null],
      [text |-> NoText, sources |-> Null, citations |-> Null] }

\* String(undefined), what += appends for an absent text
Undefined == "undefined"

\* a message of the conversation; the user message of request r has id
\* <<r, "user">>, its model message (modelMessageId) has id <<r, "model">>;
\* final says that the last update of handleSendMessage, the one that sets
\* table and subQueries, has been applied
UserMessage(r) ==
    [id |-> <<r, "user">>, role |-> "user", content |-> <<>>, sources |-> <<>>,
     citations |-> <<>>, table |-> NoTable, final |-> FALSE]

PlaceholderMessage(r) ==
    [id |-> <<r, "model">>, role |-> "model", content |-> <<>>, sources |-> <<>>,
     citations |-> <<>>, table |-> NoTable, final |-> FALSE]

\* prev.map(msg => msg.id === id ? { ...msg, ...fields } : msg)
MapMessage(msgs, id, fields) ==
    [k \in DOMAIN msgs |-> IF msgs[k].id = id THEN fields @@ msgs[k] ELSE msgs[k]]

\* mutant: every source is appended, whether the collection holds its uri or not
SetSourceAlwaysAppends(m, s) == Append(m, s)

\* mutant: a source whose uri the collection holds is moved to the end
SetSourceMovesToEnd(m, s) == Append(SelectSeq(m, LAMBDA x : x.uri # s.uri), s)

\* sourcesMap.set(s.uri, s): a Map keeps the position of a key it already has
SetSource(m, s) ==
    IF \E k \in DOMAIN m : m[k].uri = s.uri
    THEN [k \in DOMAIN m |-> IF m[k].uri = s.uri THEN s ELSE m[k]]
    ELSE Append(m, s)

\* citationsMap.set(`${c.startIndex}-${c.uri}`, c)
CitationKey(c) == <<c.hasStart, c.startIndex, c.uri>>

SetCitation(m, c) ==
    IF \E k \in DOMAIN m : CitationKey(m[k]) = CitationKey(c)
    THEN [k \in DOMAIN m |-> IF CitationKey(m[k]) = CitationKey(c) THEN c ELSE m[k]]
    ELSE Append(m, c)

RECURSIVE SetSources(_, _)
\* if (chunk.sources) chunk.sources.forEach(s => sourcesMap.set(s.uri, s))
SetSources(m, items) ==
    IF items = <<>> THEN m ELSE SetSources(SetSource(m, Head(items)), Tail(items))

RECURSIVE SetCitations(_, _)
\* if (chunk.citations) chunk.citations.forEach(c => citationsMap.set(key, c))
SetCitations(m, items) ==
    IF items = <<>> THEN m ELSE SetCitations(SetCitation(m, Head(items)), Tail(items))

\* fullText += chunk.text || ''   (the follow-up loop has no || '')
AppendedText(path, fullText, text) ==
    IF text.has THEN fullText \o text.val
    ELSE IF path = "followup" THEN Append(fullText, Undefined)
    ELSE fullText

\* the request record after the body of a stream loop has run on chunk
Accumulate(rq, chunk) ==
    IF rq.path = "mistral"
    THEN [rq EXCEPT !.fullText = AppendedText(rq.path, rq.fullText, chunk.text)]
    ELSE [rq EXCEPT !.fullText = AppendedText(rq.path, rq.fullText, chunk.text),
                    !.sourcesMap = SetSources(rq.sourcesMap, chunk.sources.items),
                    !.citationsMap = SetCitations(rq.citationsMap, chunk.citations.items)]

\* ChatMessageItem: what a message shows, a value derived from the message
\* each time it is rendered (src/unnamed/part_003)
contentToRender(msg) ==
    IF msg.role = "model"
    THEN processCitedContent(msg.content, List(msg.citations), List(msg.sources))
    ELSE msg.content

\* mutant: the stream loop stores the content with its citation markers
StreamedInjected(msgs, r, rq) ==
    MapMessage(msgs, <<r, "model">>,
        [content |-> processCitedContent(rq.fullText, List(rq.citationsMap), List(rq.sourcesMap)),
         sources |-> rq.sourcesMap, citations |-> rq.citationsMap])

\* the setChatMessages update of a stream loop
Streamed(msgs, r, rq) ==
    IF rq.path = "mistral"
    THEN MapMessage(msgs, <<r, "model">>, [content |-> rq.fullText])
    ELSE MapMessage(msgs, <<r, "model">>,
             [content |-> rq.fullText, sources |-> rq.sourcesMap,
              citations |-> rq.citationsMap])

\* the request handleSendMessage would start next
NextRequest == Cardinality({ r \in Requests : requests[r].pc # "unsent" }) + 1

\* handleSendMessage up to its first await
HandleSendMessage ==
    /\ ~isLoading
    /\ NextRequest <= MaxRequests
    /\ LET r == NextRequest
           path == IF isDeepResearchMode THEN "deep"
                   ELSE IF activeModel = "mistral" THEN "mistral"
                   ELSE IF activeChat = 0 THEN "search"
                   ELSE "followup"
       IN  /\ isRequestCancelled' = FALSE
           /\ isLoading' = TRUE
           /\ error' = "none"
           /\ chatMessages' =
                 IF isDeepResearchMode
                 THEN Append(chatMessages, UserMessage(r))
                 ELSE chatMessages \o <<UserMessage(r), PlaceholderMessage(r)>>
           /\ requests' = [requests EXCEPT ![r] =
                 [Unsent EXCEPT !.pc = "streaming", !.path = path,
                                !.isFirstMessage = (chatMessages = <<>>),
                                !.historyId = activeHistoryId]]
    /\ UNCHANGED <<activeModel, isDeepResearchMode, activeChat, activeHistoryId,
                   searchHistory, stopped>>
    /\ UNCHANGED <<citeVars, tableVars, dirVars>>

RECURSIVE ContentsOf(_)
\* the characters of the contents of a list of messages, in order
ContentsOf(msgs) ==
    IF msgs = <<>> THEN <<>> ELSE Head(msgs).content \o ContentsOf(Tail(msgs))

\* an answer column of search_history: its text, and what JSON.parse makes
\* of that text (json: it parses; array: to an array; items: the array)
\* JSON.stringify(finalMessages): one line, the contents between brackets
Stringify(msgs) ==
    [text |-> <<"[">> \o ContentsOf(msgs) \o <<"]">>,
     json |-> TRUE, array |-> TRUE, items |-> msgs]

\* the code after the stream loops, reached when a loop ends or breaks:
\* setActiveChat on the new-search path, the cancellation test, the final
\* setChatMessages with the history write, and the finally block
AfterLoop(r, rq) ==
    /\ activeChat' = IF rq.path = "search" THEN r ELSE activeChat
    /\ IF isRequestCancelled
       THEN /\ requests' = [requests EXCEPT ![r] = [rq EXCEPT !.pc = "aborted"]]
            /\ UNCHANGED <<chatMessages, searchHistory>>
       ELSE LET result == extractAndParseMarkdownTable(rq.fullText)
                finalMessages ==
                    MapMessage(chatMessages, <<r, "model">>,
                        [content |-> result.remainingText, table |-> result.table,
                         sources |-> rq.sourcesMap, citations |-> rq.citationsMap,
                         final |-> TRUE])
            IN  /\ chatMessages' = finalMessages
                /\ searchHistory' = Append(searchHistory,
                      [op |-> IF rq.historyId # 0 THEN "update" ELSE "insert",
                       id |-> rq.historyId,
                       request |-> r,
                       answer |-> Stringify(finalMessages),
                       sources |-> rq.sourcesMap,
                       isDeepResearch |-> (rq.path = "deep"),
                       pending |-> (rq.historyId = 0)])
                /\ requests' = [requests EXCEPT ![r] = [rq EXCEPT !.pc = "done"]]
    /\ isLoading' = FALSE
    /\ UNCHANGED <<isRequestCancelled, activeModel, isDeepResearchMode, activeHistoryId, error,
                   stopped>>
    /\ UNCHANGED <<citeVars, tableVars, dirVars>>

\* what the stream of request rq may deliver next
Deliverable(rq) ==
    IF rq.path = "deep" /\ ~rq.synthesizing
    THEN { [stage |-> "SYNTHESIZING", text |-> NoText, sources |-> Null, citations |-> Null] }
    ELSE IF rq.path = "mistral"
    THEN { [stage |-> "RESULT"] @@ c : c \in { x \in ChunkPool : x.text.has } }
    ELSE { [stage |-> "RESULT"] @@ c : c \in ChunkPool }

\* one iteration of for await (const chunk of stream)
ChunkArrives(r, chunk) ==
    /\ requests[r].pc = "streaming"
    /\ requests[r].delivered < MaxChunks
    /\ chunk \in Deliverable(requests[r])
    /\ LET rq == [requests[r] EXCEPT !.delivered = @ + 1]
       IN  IF isRequestCancelled
           THEN \* if (isRequestCancelled.current) break
                AfterLoop(r, rq)
           ELSE IF chunk.stage = "SYNTHESIZING"
           THEN /\ chatMessages' = Append(chatMessages, PlaceholderMessage(r))
                /\ requests' = [requests EXCEPT ![r] = [rq EXCEPT !.synthesizing = TRUE]]
                /\ UNCHANGED <<isLoading, isRequestCancelled, activeModel, isDeepResearchMode,
                               activeChat, activeHistoryId, error, searchHistory, stopped>>
                /\ UNCHANGED <<citeVars, tableVars, dirVars>>
           ELSE LET acc == Accumulate(rq, chunk)
                IN  /\ requests' = [requests EXCEPT ![r] = acc]
                    /\ chatMessages' = Streamed(chatMessages, r, acc)
                    /\ UNCHANGED <<isLoading, isRequestCancelled, activeModel,
                                   isDeepResearchMode, activeChat, activeHistoryId,
                                   error, searchHistory, stopped>>
                    /\ UNCHANGED <<citeVars, tableVars, dirVars>>

\* the stream is exhausted: the loop ends (performDeepResearch yields
\* SYNTHESIZING before it returns)
StreamEnds(r) ==
    /\ requests[r].pc = "streaming"
    /\ requests[r].path = "deep" => requests[r].synthesizing
    /\ AfterLoop(r, requests[r])

\* mutant: the catch block removes the placeholder and keeps the user message
StreamFailsKeepsUserMessage(r) ==
    /\ requests[r].pc = "streaming"
    /\ requests' = [requests EXCEPT ![r].pc = "failed"]
    /\ chatMessages' =
          IF isRequestCancelled THEN chatMessages
          ELSE SelectSeq(chatMessages, LAMBDA msg : msg.id # <<r, "model">>)
    /\ error' = IF isRequestCancelled THEN error ELSE "stream"
    /\ isLoading' = FALSE
    /\ UNCHANGED <<isRequestCancelled, activeModel, isDeepResearchMode, activeChat,
                   activeHistoryId, searchHistory, stopped>>
    /\ UNCHANGED <<citeVars, tableVars, dirVars>>

\* the stream throws: the catch block, then the finally block
StreamFails(r) ==
    /\ requests[r].pc = "streaming"
    /\ requests' = [requests EXCEPT ![r].pc = "failed"]
    /\ chatMessages' =
          IF isRequestCancelled THEN chatMessages
          ELSE SelectSeq(chatMessages, LAMBDA msg : msg.id \notin {<<r, "model">>, <<r, "user">>})
    /\ error' = IF isRequestCancelled THEN error ELSE "stream"
    /\ isLoading' = FALSE
    /\ UNCHANGED <<isRequestCancelled, activeModel, isDeepResearchMode, activeChat,
                   activeHistoryId, searchHistory, stopped>>
    /\ UNCHANGED <<citeVars, tableVars, dirVars>>

\* the Stop button, shown in place of Send while isLoading
HandleStop ==
    /\ isLoading
    /\ isRequestCancelled' = TRUE
    /\ isLoading' = FALSE
    /\ stopped' = stopped \cup { r \in Requests : requests[r].pc = "streaming" }
    /\ UNCHANGED <<activeModel, isDeepResearchMode, activeChat, activeHistoryId, error,
                   chatMessages, requests, searchHistory>>
    /\ UNCHANGED <<citeVars, tableVars, dirVars>>

\* resetChatState
ResetChatState ==
    /\ isLoading' = FALSE
    /\ error' = "none"
    /\ activeChat' = 0
    /\ chatMessages' = <<>>
    /\ activeHistoryId' = 0

\* the New Chat button of the sidebar
HandleNewChat ==
    /\ chatMessages # <<>>
    /\ ResetChatState
    /\ isDeepResearchMode' = FALSE
    /\ UNCHANGED <<isRequestCancelled, activeModel, requests, searchHistory, stopped>>
    /\ UNCHANGED <<citeVars, tableVars, dirVars>>

\* the model menu of the search bar, disabled while isLoading (explored
\* while a call of handleSendMessage is left within MaxRequests)
HandleModelChange(model) ==
    /\ ~isLoading
    /\ NextRequest <= MaxRequests
    /\ model # activeModel
    /\ activeModel' = model
    /\ IF chatMessages # <<>>
       THEN ResetChatState /\ isDeepResearchMode' = FALSE
       ELSE /\ isDeepResearchMode' = (isDeepResearchMode /\ model = "gemini")
            /\ UNCHANGED <<isLoading, error, activeChat, chatMessages, activeHistoryId>>
    /\ UNCHANGED <<isRequestCancelled, requests, searchHistory, stopped>>
    /\ UNCHANGED <<citeVars, tableVars, dirVars>>

\* the deep research switch of the search bar: Gemini only, disabled while
\* isLoading (explored while a call of handleSendMessage is left)
ToggleDeepResearch ==
    /\ ~isLoading
    /\ NextRequest <= MaxRequests
    /\ activeModel = "gemini"
    /\ isDeepResearchMode' = ~isDeepResearchMode
    /\ UNCHANGED <<isLoading, isRequestCancelled, activeModel, activeChat, activeHistoryId,
                   error, chatMessages, requests, searchHistory, stopped>>
    /\ UNCHANGED <<citeVars, tableVars, dirVars>>

\* the insert of a history record returns: setActiveHistoryId(insertedData.id),
\* or an error, which only sets the error banner
InsertReturns(k, ok) ==
    /\ k \in DOMAIN searchHistory
    /\ searchHistory[k].pending
    /\ searchHistory' = [searchHistory EXCEPT ![k].pending = FALSE, ![k].id = IF ok THEN k ELSE 0]
    /\ activeHistoryId' = IF ok THEN k ELSE activeHistoryId
    /\ error' = IF ok THEN error ELSE "history"
    /\ UNCHANGED <<isLoading, isRequestCancelled, activeModel, isDeepResearchMode, activeChat,
                   chatMessages, requests, stopped>>
    /\ UNCHANGED <<citeVars, tableVars, dirVars>>

\* loadedMessages of loadChatFromHistory: the parsed messages with fresh ids
LoadedMessages(items) ==
    [k \in DOMAIN items |-> [items[k] EXCEPT !.id = <<0, @[2]>>]]

\* the catch block of loadChatFromHistory: result is what the table extractor
\* made of the answer text
LoadFallback(item, result) ==
    /\ chatMessages' =
          << [UserMessage(0) EXCEPT !.id = <<0, "user">>],
             [id |-> <<0, "model">>, role |-> "model",
              content |-> result.remainingText, sources |-> item.sources,
              citations |-> <<>>, table |-> result.table, final |-> TRUE] >>
    /\ responseText' = item.answer.text
    /\ extracted' = [called |-> TRUE] @@ result

\* a click on an item of the history page: loadChatFromHistory. The item is
\* a record that search_history holds, with the answer of one of the writes
\* made to it. An answer that parses to a non-empty array is taken as the
\* messages, with fresh ids; any other answer (text that is not JSON, JSON
\* that is not an array, the empty array) goes through the table extractor
\* and gives a user message with the query and a model message. The user
\* message holds the query, so historyForApi is not empty and a chat session
\* is started from it: session 0 - h.
LoadChatFromHistory(h) ==
    /\ h \in DOMAIN searchHistory
    /\ ~searchHistory[h].pending
    /\ searchHistory[h].id # 0
    /\ LET item == searchHistory[h]
       IN  /\ isLoading' = FALSE
           /\ error' = "none"
           /\ activeHistoryId' = item.id
           /\ isDeepResearchMode' = item.isDeepResearch
           /\ activeModel' = "gemini"
           /\ activeChat' = 0 - h
           /\ IF item.answer.json /\ item.answer.array /\ item.answer.items # <<>>
              THEN /\ chatMessages' = LoadedMessages(item.answer.items)
                   /\ UNCHANGED tableVars
              ELSE LoadFallback(item, extractAndParseMarkdownTable(item.answer.text))
    /\ UNCHANGED <<isRequestCancelled, requests, searchHistory, stopped>>
    /\ UNCHANGED <<citeVars, dirVars>>

Init == PageIdle /\ CiteIdle /\ TableIdle /\ DirIdle

Next ==
    \/ HandleSendMessage
    \/ \E r \in Requests : \E stage \in {"SYNTHESIZING", "RESULT"} :
          \E c \in ChunkPool :
             ChunkArrives(r, [stage |-> stage] @@ c)
    \/ \E r \in Requests : StreamEnds(r)
    \/ \E r \in Requests : StreamFails(r)
    \/ HandleStop
    \/ HandleNewChat
    \/ \E model \in {"gemini", "mistral"} : HandleModelChange(model)
    \/ ToggleDeepResearch
    \/ \E k \in 1..MaxRequests : \E ok \in BOOLEAN : InsertReturns(k, ok)
    \/ \E h \in 1..MaxRequests : LoadChatFromHistory(h)

Spec == Init /\ [][Next]_vars

-----------------------------------------------------------------------------
(* Loading a record of search_history: loadChatFromHistory of the search   *)
(* page and the chat list of the public workspace page                     *)
(* (src/components/PublicWorkspacePage.tsx). The record is drawn from the   *)
(* answers the table can hold: the JSON handleSendMessage writes, and the  *)
(* raw text of records written before answers were stored as JSON.         *)

\* an answer that is raw text, not JSON
LegacyAnswer(text) == [text |-> text, json |-> FALSE, array |-> FALSE, items |-> <<>>]

\* an answer whose raw text happens to be JSON, but not an array: 42
ScalarAnswer == [text |-> <<"4", "2">>, json |-> TRUE, array |-> FALSE, items |-> <<>>]

\* a finalized model message, as handleSendMessage leaves it
FinalMessage(r, txt, srcs, cits, tbl) ==
    [id |-> <<r, "model">>, role |-> "model", content |-> txt, sources |-> srcs,
     citations |-> cits, table |-> tbl, final |-> TRUE]

\* conversations a record may hold
MessageLists ==
    { <<>>,
      <<UserMessage(1), FinalMessage(1, <<"a">>, <<>>, <<>>, NoTable)>>,
      <<UserMessage(1),
        FinalMessage(1, <<"a", "b">>, <<[uri |-> "u1", title |-> "T1"]>>,
                     <<MkCitation([has |-> TRUE, val |-> 0], [has |-> TRUE, val |-> 1], "u1")>>,
                     Table(<<"a", "b">>, <<<<"c", "d">>>>))>>,
      <<UserMessage(1), FinalMessage(1, <<"a">>, <<>>, <<>>, NoTable),
        UserMessage(2), FinalMessage(2, <<"b">>, <<>>, <<>>, NoTable)>> }

\* lines of a raw-text answer
LegacyLinePool == GridLinePool \cup { <<Fence, JsonTag, " ", "J_full", Fence>> }

HistoryItem(answer, deep) ==
    [op |-> "insert", id |-> 1, request |-> 0, answer |-> answer, sources |-> <<>>,
     isDeepResearch |-> deep, pending |-> FALSE]

InitLoad ==
    /\ \E deep \in BOOLEAN :
          \/ \E msgs \in MessageLists :
                searchHistory = <<HistoryItem(Stringify(msgs), deep)>>
          \/ \E ls \in SeqsUpTo(LegacyLinePool, MaxLines) :
                searchHistory = <<HistoryItem(LegacyAnswer(Join(ls, <<NL>>)), deep)>>
          \/ searchHistory = <<HistoryItem(ScalarAnswer, deep)>>
    /\ isLoading = FALSE
    /\ isRequestCancelled = FALSE
    /\ activeModel = "gemini"
    /\ isDeepResearchMode = FALSE
    /\ activeChat = 0
    /\ activeHistoryId = 0
    /\ error = "none"
    /\ chatMessages = <<>>
    /\ requests = [r \in 1..MaxRequests |-> Unsent]
    /\ stopped = {}
    /\ CiteIdle
    /\ TableIdle
    /\ DirIdle

\* PublicWorkspacePage: a click on a chat of the list (setSelectedChat); the
\* chatMessages memo hands the answer of the chat to the table extractor
SelectChat(h) ==
    /\ h \in DOMAIN searchHistory
    /\ ~searchHistory[h].pending
    /\ searchHistory[h].id # 0
    /\ responseText' = searchHistory[h].answer.text
    /\ extracted' = [called |-> TRUE] @@ extractAndParseMarkdownTable(searchHistory[h].answer.text)
    /\ UNCHANGED <<citeVars, pageVars, dirVars>>

NextLoad ==
    \/ LoadChatFromHistory(1)
    \/ SelectChat(1)

SpecLoad == InitLoad /\ [][NextLoad]_vars

-----------------------------------------------------------------------------
(* getTextDirection: src/utils/textDirection.ts. A string is its sequence  *)
(* of UTF-16 code units, which is what a regular expression without the u  *)
(* flag tests.                                                              *)

\* the class [\u0600-\u06FF]
ArabicFirst == 1536
ArabicLast == 1791

\* mutant: the direction is that of the first code unit
getTextDirectionOfFirstUnit(txt) ==
    IF ~txt.present \/ txt.items = <<>> THEN "ltr"
    ELSE IF txt.items[1] \in ArabicFirst..ArabicLast THEN "rtl" ELSE "ltr"

getTextDirection(txt) ==
    IF ~txt.present \/ txt.items = <<>>
    THEN \* if (!text) return 'ltr'
         "ltr"
    ELSE IF \E i \in DOMAIN txt.items : txt.items[i] \in ArabicFirst..ArabicLast
         THEN "rtl"
         ELSE "ltr"

MaxUnits == 3

\* code units at and around the ends of the class: space, a, U+05FF, U+0600,
\* U+06FF, U+0700, and the two halves of a character outside the BMP
UnitPool == {32, 97, ArabicFirst - 1, ArabicFirst, ArabicLast, ArabicLast + 1, 55357, 56832}

InitDirection ==
    /\ \/ dirText = Null
       \/ \E units \in SeqsUpTo(UnitPool, MaxUnits) : dirText = List(units)
    /\ direction = "none"
    /\ CiteIdle
    /\ TableIdle
    /\ PageIdle

Direct ==
    /\ direction = "none"
    /\ direction' = getTextDirection(dirText)
    /\ UNCHANGED dirText
    /\ UNCHANGED <<citeVars, tableVars, pageVars>>

NextDirection == Direct

SpecDirection == InitDirection /\ [][NextDirection]_vars

-----------------------------------------------------------------------------
(* Properties of processCitedContent *)

Chars == { Alphabet[i] : i \in DOMAIN Alphabet }

\* the content characters are single letters, so any other element of the
\* output is an inserted marker
IsMarker(x) == x \notin Chars

IsText(x) == x \in Chars

StripMarkers(out) == SelectSeq(out, IsText)

MarkersOf(out) == SelectSeq(out, IsMarker)

\* positions of the markers in the output, ascending
MarkerPositions(out) ==
    LET P == { q \in 1..Len(out) : IsMarker(out[q]) }
    IN  [r \in 1..Cardinality(P) |->
            CHOOSE q \in P : Cardinality({ x \in P : x < q }) = r - 1]

\* number of content characters emitted before position q of the output
CharsBefore(out, q) == Cardinality({ x \in 1..(q - 1) : IsText(out[x]) })

\* a valid citation: numeric startIndex and a uri some source carries
ValidCit(c) ==
    /\ c.hasStart
    /\ sources.present
    /\ \E i \in 1..Len(sources.items) : sources.items[i].uri = c.uri

ValidIdx == { k \in 1..Len(citations.items) : ValidCit(citations.items[k]) }

\* processing order: ascending startIndex, input order among equal ones
Before(j, i) ==
    \/ citations.items[j].startIndex < citations.items[i].startIndex
    \/ /\ citations.items[j].startIndex = citations.items[i].startIndex
       /\ j < i

ProcSeq ==
    [r \in 1..Cardinality(ValidIdx) |->
        CHOOSE i \in ValidIdx : Cardinality({ j \in ValidIdx : Before(j, i) }) = r - 1]

RECURSIVE Restrict(_, _)
Restrict(q, E) ==
    IF q = <<>> THEN <<>>
    ELSE IF Head(q) \in E THEN <<Head(q)>> \o Restrict(Tail(q), E)
         ELSE Restrict(Tail(q), E)

\* the cursor a citation meets: the insertion point of the marker emitted
\* last before it, or base when none was emitted
Cursor(E, i, base, ip(_)) ==
    LET prev == { j \in E : Before(j, i) }
    IN  IF prev = {} THEN base
        ELSE ip(citations.items[CHOOSE j \in prev : \A k \in prev \ {j} : Before(k, j)])

\* E is the set of citations that get a marker under the skip rule
SkipRule(E, base, ip(_)) ==
    \A i \in ValidIdx : (i \in E) <=> (ip(citations.items[i]) >= Cursor(E, i, base, ip))

\* one-based position of the first source with this uri
FirstIndexOf(srcs, uri) ==
    CHOOSE i \in 1..Len(srcs) :
        /\ srcs[i].uri = uri
        /\ \A j \in 1..(i - 1) : srcs[j].uri # uri

\* the output carries exactly the markers of E, in processing order, each
\* after the first ip characters of the content
MarkersAt(E, ip(_)) ==
    LET es == Restrict(ProcSeq, E)
        mp == MarkerPositions(rendered.out)
    IN  /\ Len(mp) = Len(es)
        /\ \A r \in 1..Len(es) :
              CharsBefore(rendered.out, mp[r]) = Clamp(ip(citations.items[es[r]]), Len(content))
        /\ \A r \in 1..Len(es) : \A t \in r..Len(es) :
              ip(citations.items[es[r]]) <= ip(citations.items[es[t]])

LowerThanAll == 0 - (MaxIdx + 2)

\* the insertion point as the specification words it: endIndex if present
SpecInsertionPoint(c) == IF c.hasEnd THEN c.endIndex ELSE c.startIndex

\* C3: deleting the inserted markers from the output of processCitedContent
\* gives back the content, whatever the indices of the citations
C3_StrippedOutputIsContent ==
    rendered.called => StripMarkers(rendered.out) = content

\* C3 witness: two markers were inserted for citations of which one ends
\* beyond the content, next to a citation with a negative index
C3_Witness ==
    /\ rendered.called
    /\ Len(content) >= 2
    /\ Len(MarkersOf(rendered.out)) >= 1
    /\ \E k \in ValidIdx : insertionPoint(citations.items[k]) > Len(content)
    /\ \E k \in ValidIdx : citations.items[k].startIndex < 0

\* C4 (as claimed): a valid citation has no marker exactly when its insertion
\* point is below that of the marker emitted last before it
C4_SkipOnlyBelowLastMarker ==
    rendered.called =>
        \E E \in SUBSET ValidIdx :
            SkipRule(E, LowerThanAll, insertionPoint) /\ MarkersAt(E, insertionPoint)

\* C4 (amended): markers stand at non-decreasing insertion points, and a valid
\* citation has no marker exactly when its insertion point is below the
\* cursor: the insertion point of the marker emitted last before it, or 0
\* when no marker was emitted yet
C4_SkipBelowCursor ==
    rendered.called =>
        \E E \in SUBSET ValidIdx :
            SkipRule(E, 0, insertionPoint) /\ MarkersAt(E, insertionPoint)

\* C4 witness: a valid citation with a negative insertion point is skipped
\* before any marker, and a later one gets a marker
C4_Witness ==
    /\ rendered.called
    /\ Len(MarkersOf(rendered.out)) = 1
    /\ Cardinality(ValidIdx) = 2
    /\ insertionPoint(citations.items[ProcSeq[1]]) < 0
    /\ insertionPoint(citations.items[ProcSeq[2]]) > 0

\* the marker of citation k when it carries the index of the first source
\* with the citation's uri
FirstSourceMarker(k) ==
    citationMarkdownLink(FirstIndexOf(sources.items, citations.items[k].uri) - 1)

\* two valid citations with non-empty spans [startIndex, endIndex) that
\* overlap and start at different positions
OverlappingPair ==
    /\ rendered.called
    /\ Len(citations.items) = 2
    /\ ValidIdx = {1, 2}
    /\ \A k \in {1, 2} :
          /\ citations.items[k].hasEnd
          /\ citations.items[k].startIndex < citations.items[k].endIndex
    /\ citations.items[1].startIndex # citations.items[2].startIndex
    /\ Max(citations.items[1].startIndex, citations.items[2].startIndex)
          < Min(citations.items[1].endIndex, citations.items[2].endIndex)

\* of an overlapping pair: the citation that starts first, and the other one
Earlier == IF citations.items[1].startIndex < citations.items[2].startIndex THEN 1 ELSE 2

Later == 3 - Earlier

C6_InsertsAtEndIndexWhenPresent ==
    rendered.called =>
        \E E \in SUBSET ValidIdx :
            SkipRule(E, 0, SpecInsertionPoint) /\ MarkersAt(E, SpecInsertionPoint)

\* C7: every marker carries the zero-based index of the first source whose uri
\* is that of a valid citation and shows that index plus one, and the renderer
\* resolves it to the source at that index with the same number
C7_MarkerCarriesFirstSourceIndex ==
    rendered.called =>
        \A q \in 1..Len(rendered.out) :
            IsMarker(rendered.out[q]) =>
                \E k \in ValidIdx :
                    LET first == FirstIndexOf(sources.items, citations.items[k].uri)
                        shown == CitationLink(rendered.out[q], sources.items)
                    IN  /\ rendered.out[q] = citationMarkdownLink(first - 1)
                        /\ shown.kind = "button"
                        /\ shown.sourceIndex = first - 1
                        /\ shown.number = first
                        /\ shown.title = sources.items[first].title

RemoveAt(seq, k) == SubSeq(seq, 1, k - 1) \o SubSeq(seq, k + 1, Len(seq))

\* C8: a citation without a numeric startIndex, or whose uri no source
\* carries, gets no marker, and the output is the one of the citation list
\* without it
C8_InvalidCitationHasNoEffect ==
    rendered.called =>
        /\ Len(MarkersOf(rendered.out)) <= Cardinality(ValidIdx)
        /\ \A k \in 1..Len(citations.items) :
              ~ValidCit(citations.items[k]) =>
                  rendered.out =
                      processCitedContent(content, List(RemoveAt(citations.items, k)), sources)

\* C8 witness: a dangling citation was dropped next to a valid citation that
\* got its marker
C8_Witness ==
    /\ rendered.called
    /\ \E k \in 1..Len(citations.items) :
          /\ citations.items[k].hasStart
          /\ ~ValidCit(citations.items[k])
    /\ ValidIdx # {}
    /\ Len(MarkersOf(rendered.out)) = 1

\* C9: without a valid citation (citations or sources empty or absent, or
\* every citation unanchored or dangling) the output is the content
C9_NoValidCitationReturnsContent ==
    (rendered.called /\ ValidIdx = {}) => rendered.out = content

\* C9 witness: the call went past the fast path (both lists non-empty) and
\* found every citation dangling or unanchored
C9_Witness ==
    /\ rendered.called
    /\ ValidIdx = {}
    /\ citations.present /\ Len(citations.items) > 0
    /\ sources.present /\ Len(sources.items) > 0
    /\ \E k \in 1..Len(citations.items) : citations.items[k].hasStart
    /\ content # <<>>

-----------------------------------------------------------------------------
(* Properties of extractAndParseMarkdownTable *)

\* C10: every non-null table returned by extractAndParseMarkdownTable has
\* every row of the same length as the header list, whichever phase (fenced
\* JSON block or grid detection) produced it.
C10_RowsMatchHeaders ==
    (extracted.called /\ extracted.table.present) =>
        \A i \in 1..Len(extracted.table.rows) :
            Len(extracted.table.rows[i]) = Len(extracted.table.headers)

\* C11: every non-null table returned by extractAndParseMarkdownTable has at
\* least one row, whichever phase produced it; an extraction that collects no
\* row returns table null.
C11_TableHasRows ==
    (extracted.called /\ extracted.table.present) => Len(extracted.table.rows) >= 1

\* the fenced block of the response text, when it has one with a payload
ResponseBlock == blockMatch(Trim(responseText))

HasBlock == ResponseBlock.found /\ ResponseBlock.group # <<>>

\* the block parses as JSON and its table value fails the shape test
InvalidTableBlock ==
    /\ HasBlock
    /\ JsonParse(ResponseBlock.group).ok
    /\ JsonParse(ResponseBlock.group).value.tableKind = "object"
    /\ ~ValidatedTable(JsonParse(ResponseBlock.group).value).present

\* C12: when the fenced block parses as JSON but its table value is not a
\* valid table, the result is that of grid detection on the text outside the
\* block alone: the block is neither scanned nor part of remainingText.
C12_InvalidTableScansOutsideOnly ==
    (/\ extracted.called
     /\ InvalidTableBlock
     /\ internalParseMarkdownForTable(Trim(ResponseBlock.outside)).table.present) =>
        /\ extracted.table = internalParseMarkdownForTable(Trim(ResponseBlock.outside)).table
        /\ extracted.remainingText =
              internalParseMarkdownForTable(Trim(ResponseBlock.outside)).remainingText

\* C13: whenever extractAndParseMarkdownTable returns table null,
\* remainingText is the input as it was given: not trimmed, and with a
\* malformed fenced block still in it.
C13_NoTableReturnsInput ==
    (extracted.called /\ ~extracted.table.present) =>
        extracted.remainingText = responseText

\* C13 witness: no table came out of a text that begins or ends with a blank
\* and holds a fenced block that is not JSON
C13_Witness ==
    /\ extracted.called
    /\ ~extracted.table.present
    /\ HasBlock
    /\ ~JsonParse(ResponseBlock.group).ok
    /\ Trim(responseText) # responseText

\* the lines of the response text
ResponseLines == Split(responseText, NL)

NoFence == ~Includes(responseText, Fence)

\* the table is made of lines s (header), s + 1 (separator) and the n lines
\* after them (rows), and remainingText is what is left of the text
CutAt(s, n) ==
    /\ extracted.table.headers = parseRow(ResponseLines[s])
    /\ Len(extracted.table.rows) = n
    /\ \A i \in 1..n : extracted.table.rows[i] = parseRow(ResponseLines[s + 1 + i])
    /\ extracted.remainingText =
          Trim(Join(SubSeq(ResponseLines, 1, s - 1)
                    \o SubSeq(ResponseLines, s + 2 + n, Len(ResponseLines)), <<NL>>))

\* C14: for a text without a fenced block in which a table is found, the
\* lines taken out are one contiguous run (header, separator, data rows), and
\* remainingText is all the other lines in their order, joined by newlines
\* and trimmed at both ends.
C14_OnlyTableLinesRemoved ==
    (extracted.called /\ NoFence /\ extracted.table.present) =>
        \E s \in 1..Len(ResponseLines) : \E n \in 1..Len(ResponseLines) :
            s + 1 + n <= Len(ResponseLines) /\ CutAt(s, n)

\* C14 witness: a table was cut out from between a blank line and a line of
\* prose, and the blank line is still there
C14_Witness ==
    /\ extracted.called
    /\ NoFence
    /\ extracted.table.present
    /\ extracted.remainingText = <<"x", NL, NL, "x">>

\* a segment reads: blanks, an optional colon, one or more dashes, an optional
\* colon, blanks
DashSegmentShape(seg) ==
    \E a \in 0..Len(seg) : \E b \in a..Len(seg) :
        /\ \A i \in 1..a : IsSpace(seg[i])
        /\ \A i \in (b + 1)..Len(seg) : IsSpace(seg[i])
        /\ \E c \in {0, 1} : \E d \in {0, 1} :
              /\ (b - a) - c - d >= 1
              /\ c = 1 => seg[a + 1] = ":"
              /\ d = 1 => seg[b] = ":"
              /\ \A i \in (a + 1 + c)..(b - d) : seg[i] = "-"

\* the separator rule as the specification words it, on the trimmed line
SeparatorShape(line) ==
    LET segments == Split(StripPipes(Trim(line)), "|")
    IN  Len(segments) >= 1 /\ \A i \in 1..Len(segments) : DashSegmentShape(segments[i])

\* C15 (as claimed): a line is accepted as a separator exactly when, without
\* one leading and one trailing pipe, every segment between pipes is an
\* optional colon, dashes, an optional colon; nothing else is required.
C15_SeparatorByShapeOnly ==
    extracted.called =>
        \A i \in 1..Len(ResponseLines) :
            isSeparatorLine(ResponseLines[i]) <=> SeparatorShape(ResponseLines[i])

\* C15 (amended): a line is accepted as a separator exactly when it holds a
\* pipe and, without one leading and one trailing pipe, every segment between
\* pipes is an optional colon, dashes, an optional colon; and a table found in
\* a text without a fenced block has such a line after its header.
C15_SeparatorNeedsPipe ==
    extracted.called =>
        /\ \A i \in 1..Len(ResponseLines) :
              isSeparatorLine(ResponseLines[i]) <=>
                  (Includes(ResponseLines[i], "|") /\ SeparatorShape(ResponseLines[i]))
        /\ (NoFence /\ extracted.table.present) =>
              \E i \in 1..(Len(ResponseLines) - 1) :
                  /\ extracted.table.headers = parseRow(ResponseLines[i])
                  /\ Includes(ResponseLines[i + 1], "|")
                  /\ SeparatorShape(ResponseLines[i + 1])

\* C15 witness: a one-column header, a line of dashes without a pipe and a
\* conforming row gave no table
C15_Witness ==
    /\ extracted.called
    /\ ResponseLines = << <<"x">>, <<"-">>, <<"|", "c">> >>
    /\ ~extracted.table.present

\* the fenced block holds a JSON document with a valid table
ValidTableBlock ==
    /\ HasBlock
    /\ JsonParse(ResponseBlock.group).ok
    /\ ValidatedTable(JsonParse(ResponseBlock.group).value).present

\* the trimmed text field of the payload, empty when it has none
PayloadText ==
    IF JsonParse(ResponseBlock.group).value.hasText
    THEN Trim(JsonParse(ResponseBlock.group).value.text)
    ELSE <<>>

\* C16: when the first fenced block holds JSON with a valid table, that table
\* is returned, and remainingText is the trimmed text outside the block, a
\* blank line, and the trimmed text field of the payload; when one of the two
\* is empty the other is returned alone.
C16_BlockTableAndCombinedText ==
    (extracted.called /\ ValidTableBlock) =>
        /\ extracted.table = ValidatedTable(JsonParse(ResponseBlock.group).value)
        /\ extracted.remainingText =
              IF Trim(ResponseBlock.outside) = <<>> THEN PayloadText
              ELSE IF PayloadText = <<>> THEN Trim(ResponseBlock.outside)
              ELSE Trim(ResponseBlock.outside) \o <<NL, NL>> \o PayloadText

\* C16 witness: a valid table from a payload without text, with prose outside
\* the block: the prose is returned alone
C16_Witness ==
    /\ extracted.called
    /\ ValidTableBlock
    /\ PayloadText = <<>>
    /\ Trim(ResponseBlock.outside) # <<>>
    /\ extracted.remainingText = Trim(ResponseBlock.outside)

\* line i is a header, line i + 1 a separator with as many cells, and line
\* i + 2 a data row with as many cells
ConformingTableAt(i) ==
    /\ i + 2 <= Len(ResponseLines)
    /\ IsTableStart(ResponseLines, i)
    /\ Includes(ResponseLines[i + 2], "|")
    /\ Len(parseRow(ResponseLines[i + 2])) = Len(parseRow(ResponseLines[i]))

\* C29: for a text without a fenced block, if some line is a header followed
\* by a separator with as many cells and by a conforming data row, a table
\* is returned, whatever header/separator pairs without data row precede it.
C29_ConformingTableIsFound ==
    (extracted.called /\ NoFence /\ \E i \in 1..Len(ResponseLines) : ConformingTableAt(i)) =>
        extracted.table.present

\* C30: when the table returned was found by grid detection (it is not the
\* table of a JSON block), the lines of the input other than the header, the
\* separator and the data rows are all in remainingText, in their order,
\* the lines of a fenced block included.
C30_GridTableKeepsAllOtherLines ==
    (extracted.called /\ extracted.table.present /\ ~ValidTableBlock) =>
        \E s \in 1..Len(ResponseLines) : \E n \in 1..Len(ResponseLines) :
            s + 1 + n <= Len(ResponseLines) /\ CutAt(s, n)

-----------------------------------------------------------------------------
(* Properties of the request orchestration *)

\* the model message of request r, as a list of zero or one message
ModelMessageOf(msgs, r) == SelectSeq(msgs, LAMBDA msg : msg.id = <<r, "model">>)

\* C1: once a response has been stopped, a chunk of it that is delivered
\* later changes neither what the request has accumulated (text, sources,
\* citations) nor its message in the conversation, in every interleaving of
\* stop, chunk arrival and handleSendMessage.
C1_StoppedResponseIgnoresLateChunks ==
    [][\A r \in stopped :
          requests'[r].delivered > requests[r].delivered =>
              /\ requests'[r].fullText = requests[r].fullText
              /\ requests'[r].sourcesMap = requests[r].sourcesMap
              /\ requests'[r].citationsMap = requests[r].citationsMap
              /\ ModelMessageOf(chatMessages', r) = ModelMessageOf(chatMessages, r)]_vars

\* C2: no insert or update of a search_history record is issued for a
\* response that was stopped while it was streaming.
C2_StoppedResponseNotPersisted ==
    \A k \in DOMAIN searchHistory : searchHistory[k].request \notin stopped

\* the entries of a source collection for one uri
EntriesFor(m, uri) == SelectSeq(m, LAMBDA s : s.uri = uri)

\* C17: the source collection of a response holds a single entry per uri,
\* and the title of a uri is the first one seen: a later chunk that carries
\* the uri again, with another title, leaves its entry as it is.
C17_FirstSeenTitleKept ==
    [][\A r \in Requests : \A uri \in Uris :
          /\ Len(EntriesFor(requests'[r].sourcesMap, uri)) <= 1
          /\ EntriesFor(requests[r].sourcesMap, uri) # <<>> =>
                EntriesFor(requests'[r].sourcesMap, uri) = EntriesFor(requests[r].sourcesMap, uri)]_vars

\* the orders in which the entries of a list can be applied
Reorderings(items) ==
    LET n == Len(items)
        P == { p \in [1..n -> 1..n] : \A i, j \in 1..n : p[i] = p[j] => i = j }
    IN  { [i \in 1..n |-> items[p[i]]] : p \in P }

\* the chunk c with the entries of its payload in another order
ReorderedChunks(c) ==
    { [c EXCEPT !.sources.items = s, !.citations.items = q] :
         s \in Reorderings(c.sources.items), q \in Reorderings(c.citations.items) }

\* the request r as the loop body finds it when a chunk arrives
Arriving(r) == [requests[r] EXCEPT !.delivered = @ + 1]

\* this step applies the sources and citations of chunk c to request r
ChunkMerged(r, c) ==
    /\ requests[r].pc = "streaming"
    /\ ~isRequestCancelled
    /\ requests[r].path # "mistral"
    /\ requests[r].path = "deep" => requests[r].synthesizing
    /\ requests'[r] = Accumulate(Arriving(r), c)

SourceKeys(m) == { m[k].uri : k \in DOMAIN m }

CitationKeys(m) == { CitationKey(m[k]) : k \in DOMAIN m }

\* what the message of a request shows once its content has been rendered
RenderedOf(rq) == processCitedContent(rq.fullText, List(rq.citationsMap), List(rq.sourcesMap))

DeltaOf(c) == IF c.text.has THEN c.text.val ELSE <<>>

\* this step applies a chunk to request r: the loop body ran and did not break
ChunkApplied(r) ==
    /\ requests[r].pc = "streaming"
    /\ requests'[r].pc = "streaming"
    /\ requests'[r].delivered = requests[r].delivered + 1

\* C19: on every streaming path, a step that applies a chunk appends the
\* text delta of that chunk, and nothing else, to the text accumulated so
\* far (a chunk without text leaves it unchanged), and the content of the
\* model message, if the conversation holds it, is that text.
C19_ContentIsConcatenationOfDeltas ==
    [][\A r \in Requests :
          ChunkApplied(r) =>
             /\ \E c \in ChunkPool : requests'[r].fullText = requests[r].fullText \o DeltaOf(c)
             /\ \A k \in DOMAIN chatMessages' :
                   chatMessages'[k].id = <<r, "model">> =>
                      chatMessages'[k].content = requests'[r].fullText]_vars

\* the markers the citation injector can insert for the sources of a response
InjectorMarkers == { citationMarkdownLink(i) : i \in 0..(Cardinality(Uris) - 1) }

\* a text without any marker of the citation injector
Raw(text) == \A i \in DOMAIN text : text[i] \notin InjectorMarkers

\* C20: the content of every message of the conversation, the content of
\* every message of every record written to search_history, and the text
\* every request hands to the table extractor hold no marker of the citation
\* injector; the injected text is only the value derived when a message is
\* rendered.
C20_StoredContentIsRaw ==
    /\ \A k \in DOMAIN chatMessages : Raw(chatMessages[k].content)
    /\ \A h \in DOMAIN searchHistory :
          \A k \in DOMAIN searchHistory[h].answer.items :
             Raw(searchHistory[h].answer.items[k].content)
    /\ \A r \in Requests : Raw(requests[r].fullText)

\* a finished response with citations is in the conversation and in a record
\* of search_history: rendering it shows a marker, its stored content has none
C20_Witness ==
    \E h \in DOMAIN searchHistory : \E k \in DOMAIN chatMessages :
        /\ chatMessages[k].final
        /\ chatMessages[k].citations # <<>>
        /\ searchHistory[h].answer.items = chatMessages
        /\ Raw(chatMessages[k].content)
        /\ ~Raw(contentToRender(chatMessages[k]))

\* an answer that is the JSON of an array of messages
SplitAnswer(answer) == answer.json /\ answer.array /\ answer.items # <<>>

\* C21: the table extractor is never run on the answer of a record that is
\* the JSON of an array of messages, whichever page loads the record.
C21_SplitAnswerNotExtracted ==
    \A h \in DOMAIN searchHistory :
        SplitAnswer(searchHistory[h].answer) =>
            ~(extracted.called /\ responseText = searchHistory[h].answer.text)

\* C23: a step of a request that was stopped while it was streaming leaves
\* the chat session of the conversation (activeChat) as it is.
C23_StoppedRequestKeepsActiveChat ==
    [][\A r \in stopped :
          requests'[r] # requests[r] => activeChat' = activeChat]_vars

\* the messages of msgs that are not the two messages of request r
WithoutRequest(msgs, r) ==
    SelectSeq(msgs, LAMBDA msg : msg.id # <<r, "user">> /\ msg.id # <<r, "model">>)

\* C24: when the stream of a request fails while the cancellation flag is
\* not set, the user message and the model message of that request leave the
\* conversation and every other message stays, in order; the error banner is
\* set, nothing is written to search_history and isLoading is false.
C24_FailureRemovesOwnMessagesOnly ==
    [][\A r \in Requests :
          (requests[r].pc = "streaming" /\ requests'[r].pc = "failed" /\ ~isRequestCancelled) =>
             /\ chatMessages' = WithoutRequest(chatMessages, r)
             /\ error' # "none"
             /\ searchHistory' = searchHistory
             /\ isLoading' = FALSE]_vars

\* the second request has failed: its messages are gone, those of the first
\* request are in the conversation, and the error banner is set
C24_Witness ==
    /\ requests[2].pc = "failed"
    /\ error = "stream"
    /\ ~isLoading
    /\ \E k \in DOMAIN chatMessages : chatMessages[k].id = <<1, "model">>
    /\ \A k \in DOMAIN chatMessages : chatMessages[k].id[1] # 2

\* the uris of a source list, in order
UrisOf(m) == [k \in DOMAIN m |-> m[k].uri]

\* the list a is the beginning of the list b
IsPrefix(a, b) == Len(a) <= Len(b) /\ SubSeq(b, 1, Len(a)) = a

\* C25: in every step the uris of the source collection of a request keep
\* their positions (the collection only grows at its end), and the sources
\* of its message in the conversation, streaming or final, are in those same
\* positions; so the number of a source, which is its position, is stable.
C25_SourcePositionsStable ==
    [][\A r \in Requests :
          /\ IsPrefix(UrisOf(requests[r].sourcesMap), UrisOf(requests'[r].sourcesMap))
          /\ \A k \in DOMAIN chatMessages' :
                chatMessages'[k].id = <<r, "model">> =>
                   IsPrefix(UrisOf(chatMessages'[k].sources), UrisOf(requests'[r].sourcesMap))]_vars

\* a uri has arrived a second time, after another uri: it is still first,
\* and the final message shows the sources in that order
C25_Witness ==
    \E r \in Requests : \E k \in DOMAIN chatMessages :
        /\ requests[r].sourcesMap =
              <<[uri |-> "u1", title |-> "T2"], [uri |-> "u2", title |-> "T2"]>>
        /\ chatMessages[k].id = <<r, "model">>
        /\ chatMessages[k].final
        /\ chatMessages[k].sources = requests[r].sourcesMap

\* C26: in the final message of a request, the text that precedes the
\* insertion point of every citation is the text that preceded it in the
\* accumulated stream text: extraction and trimming shift nothing before it.
C26_FinalCitationsReferToSameText ==
    \A r \in Requests : \A k \in DOMAIN chatMessages :
        (chatMessages[k].id = <<r, "model">> /\ chatMessages[k].final) =>
            \A i \in DOMAIN chatMessages[k].citations :
                LET p == insertionPoint(chatMessages[k].citations[i])
                IN  Substring(chatMessages[k].content, 0, p) =
                       Substring(requests[r].fullText, 0, p)

\* the conversation written by h holds the response of request r
HoldsResponseOf(h, r) ==
    \E k \in DOMAIN searchHistory[h].answer.items :
        searchHistory[h].answer.items[k].id = <<r, "model">>

\* C27: a conversation has one record: no record is inserted for a
\* conversation that holds a response for which a record was inserted before.
C27_OneRecordPerConversation ==
    \A h1, h2 \in DOMAIN searchHistory :
        (h1 < h2 /\ searchHistory[h1].op = "insert" /\ searchHistory[h2].op = "insert") =>
            ~HoldsResponseOf(h2, searchHistory[h1].request)

\* C28: every record written when a response is finalized holds the final
\* model message of that response, its content being the remainingText of
\* the table extractor on the accumulated text.
C28_RecordHoldsFinalMessage ==
    \A h \in DOMAIN searchHistory :
        LET r == searchHistory[h].request
        IN  \E k \in DOMAIN searchHistory[h].answer.items :
                LET msg == searchHistory[h].answer.items[k]
                IN  /\ msg.id = <<r, "model">>
                    /\ msg.final
                    /\ msg.content =
                          extractAndParseMarkdownTable(requests[r].fullText).remainingText

-----------------------------------------------------------------------------
(* Properties of getTextDirection *)

\* the code units of the text that lie in U+0600 to U+06FF
ArabicUnits == { i \in DOMAIN dirText.items : dirText.items[i] >= 1536 /\ dirText.items[i] <= 1791 }

\* C22: the direction of an absent or empty text is ltr; the direction of
\* any other text is rtl if and only if at least one of its characters lies
\* in U+0600 to U+06FF, however many other characters it holds.
C22_RtlIffSomeArabic ==
    direction # "none" =>
        /\ direction \in {"ltr", "rtl"}
        /\ (~dirText.present \/ dirText.items = <<>>) => direction = "ltr"
        /\ direction = "rtl" <=> ArabicUnits # {}

\* one Arabic character after two that are not: the text is rtl
C22_Witness ==
    /\ direction = "rtl"
    /\ Cardinality(ArabicUnits) = 1
    /\ Len(dirText.items) = 3
    /\ 1 \notin ArabicUnits

====
